---- MODULE Spec2Model ----
(***************************************************************************)
(* Model of app/models.py: the Blog, Author, AuthorProfile and Entry       *)
(* tables with their constraints and cascades, and AuthorProfile.save,     *)
(* which writes the row (and an uploaded avatar file) and then re-opens    *)
(* the avatar file, shrinks it to fit 200x200 and overwrites it.           *)
(*                                                                         *)
(* Strings that the code takes apart (file names, phone numbers) are       *)
(* sequences of one-character strings; Str turns one into a string.        *)
(***************************************************************************)
EXTENDS Integers, Sequences, FiniteSets, TLC

VARIABLES
    now,        \* the clock, in ticks (datetime.now)
    blogs,      \* rows of Blog
    authors,    \* rows of Author
    entries,    \* rows of Entry
    links,      \* rows of the Entry.authors join table: <<slug_headline, author id>>
    profiles,   \* rows of AuthorProfile
    files,      \* the file storage: path -> stored image file
    fileOps,    \* every file operation done so far: <<"store"|"open"|"overwrite", path>>
    pc,         \* per request: where its AuthorProfile.save stands
    inst,       \* per request: the AuthorProfile instance being saved
    img,        \* per request: the PIL image held in memory
    err,        \* per request: the exception its save raised, "" when none
    md5tab,     \* hashlib.md5(...).hexdigest() as a table: bytes -> digest
    uploads,    \* every avatar upload stored so far, with its derived and stored names
    issued,     \* the requests whose save is under way, in the order they were issued
    observed,   \* what the last reader of an avatar file has seen
    last        \* the last Blog or Entry create or save and its outcome

schemaVars == <<blogs, authors, entries, links>>
fileVars   == <<files, fileOps, uploads>>
procVars   == <<pc, inst, img, err, issued>>
vars == <<now, blogs, authors, entries, links, profiles, files, fileOps, pc, inst,
          img, err, md5tab, uploads, issued, observed, last>>

-----------------------------------------------------------------------------
(* Bounds of the model *)

MaxBlogs    == 2    \* Blog ids handed out
MaxAuthors  == 2    \* Author ids handed out
MaxProfiles == 2    \* AuthorProfile ids handed out
MaxClock    == 3    \* ticks the clock makes
TicksPerDay == 2    \* ticks in one calendar day
MaxFiles    == 3    \* files the storage holds

(* Values the operations draw their inputs from *)

BlogNames   == {"Tech", "Food"}
BlogSlugs   == {"tech", "food"}
Headlines   == {"Intro", "Next"}
EntrySlugs  == {"intro", "next"}
Procs       == {1, 2}

NoDate  == -1       \* a date the caller did not supply
NoPk    == 0        \* the pk of an instance not yet saved
NoPhone == <<"NULL">>   \* phone_number = None

Max(S) == CHOOSE m \in S : \A x \in S : x <= m

RECURSIVE Str(_)
Str(s) == IF s = <<>> THEN "" ELSE Head(s) \o Str(Tail(s))

\* the AutoField pk the database hands to a new row
NextId(rows) == IF rows = {} THEN 1 ELSE Max({r.id : r \in rows}) + 1

Today == now \div TicksPerDay    \* date.today()

Outcome(op, arg, result) == [op |-> op, arg |-> arg, result |-> result]

-----------------------------------------------------------------------------
(* Blog *)

\* a variant with slug_name not unique, to test that the properties feel the constraint
BlogUniqueNameOnly(name, slug) == \A b \in blogs : b.name # name

\* name unique, slug_name unique, (name, slug_name) unique together
BlogUnique(name, slug) ==
    /\ \A b \in blogs : b.name # name
    /\ \A b \in blogs : b.slug_name # slug
    /\ \A b \in blogs : ~(b.name = name /\ b.slug_name = slug)

\* Blog.objects.create(name=..., slug_name=...)
CreateBlog(name, slug) ==
    /\ NextId(blogs) <= MaxBlogs
    /\ IF BlogUnique(name, slug)
       THEN /\ blogs' = blogs \cup {[id |-> NextId(blogs), name |-> name, slug_name |-> slug]}
            /\ last' = Outcome("CreateBlog", <<name, slug>>, "ok")
       ELSE /\ blogs' = blogs
            /\ last' = Outcome("CreateBlog", <<name, slug>>, "IntegrityError")
    /\ UNCHANGED <<now, authors, entries, links, profiles, fileVars, procVars, md5tab, observed>>

\* blog.delete(): on_delete=CASCADE removes its entries, and their join rows
DeleteBlog(id) ==
    /\ \E b \in blogs : b.id = id
    /\ LET gone == {e \in entries : e.blog = id}
       IN  /\ blogs' = {b \in blogs : b.id # id}
           /\ entries' = entries \ gone
           /\ links' = {l \in links : \A e \in gone : l[1] # e.slug_headline}
    /\ UNCHANGED <<now, authors, profiles, fileVars, procVars, md5tab, observed, last>>

-----------------------------------------------------------------------------
(* Author *)

\* Author.objects.create(name=..., email=...): email unique
CreateAuthor(name, email) ==
    /\ NextId(authors) <= MaxAuthors
    /\ authors' = IF \A a \in authors : a.email # email
                  THEN authors \cup {[id |-> NextId(authors), name |-> name, email |-> email]}
                  ELSE authors
    /\ UNCHANGED <<now, blogs, entries, links, profiles, fileVars, procVars, md5tab,
                   observed, last>>

\* a variant without the cascade
ProfilesKept(id) == profiles

\* what author.delete() leaves of the AuthorProfile table: OneToOneField(on_delete=CASCADE)
ProfilesAfterAuthorDelete(id) == {r \in profiles : r.author # id}

\* author.delete(): removes its profile and its join rows, not the entries
DeleteAuthor(id) ==
    /\ \E a \in authors : a.id = id
    /\ authors' = {a \in authors : a.id # id}
    /\ profiles' = ProfilesAfterAuthorDelete(id)
    /\ links' = {l \in links : l[2] # id}
    /\ UNCHANGED <<now, blogs, entries, fileVars, procVars, md5tab, observed, last>>

-----------------------------------------------------------------------------
(* Entry *)

\* a variant in which slug_headline is no primary key
EntryInsertOkNoPk(blog, headline, slug) ==
    /\ \A e \in entries : ~(e.blog = blog /\ e.headline = headline /\ e.slug_headline = slug)
    /\ \E b \in blogs : b.id = blog

\* the INSERT's checks: the primary key slug_headline, unique_together, the blog FK
EntryInsertOk(blog, headline, slug) ==
    /\ \A e \in entries : e.slug_headline # slug
    /\ \A e \in entries : ~(e.blog = blog /\ e.headline = headline /\ e.slug_headline = slug)
    /\ \E b \in blogs : b.id = blog

\* a variant that behaves as a default would: the caller's date wins
AutoNowKeepsCaller(supplied) == IF supplied # NoDate THEN supplied ELSE Today

\* DateField(auto_now=True): pre_save puts today's date over whatever the instance holds
AutoNow(supplied) == Today

\* DateTimeField(default=datetime.now): the default fills in only a missing value
PubDateDefault(supplied) == IF supplied # NoDate THEN supplied ELSE now

\* Entry.objects.create(blog=..., headline=..., slug_headline=..., [pub_date=...], [mod_date=...])
CreateEntry(blog, headline, slug, pub, mod) ==
    /\ IF EntryInsertOk(blog, headline, slug)
       THEN /\ entries' = entries \cup
                   {[slug_headline |-> slug, blog |-> blog, headline |-> headline,
                     pub_date |-> PubDateDefault(pub), mod_date |-> AutoNow(mod)]}
            /\ last' = Outcome("CreateEntry", <<blog, headline, slug, pub, mod>>, "ok")
       ELSE /\ entries' = entries
            /\ last' = Outcome("CreateEntry", <<blog, headline, slug, pub, mod>>, "IntegrityError")
    /\ UNCHANGED <<now, blogs, authors, links, profiles, fileVars, procVars, md5tab, observed>>

\* entry.save() on an Entry loaded from the table, the caller having set mod_date
\* (and pub_date, when pub is a date) on the instance
SaveEntry(slug, pub, mod) ==
    /\ \E e \in entries :
          /\ e.slug_headline = slug
          /\ entries' = (entries \ {e}) \cup
                 {[e EXCEPT !.pub_date = IF pub # NoDate THEN pub ELSE @,
                            !.mod_date = AutoNow(mod)]}
    /\ last' = Outcome("SaveEntry", <<slug, pub, mod>>, "ok")
    /\ UNCHANGED <<now, blogs, authors, links, profiles, fileVars, procVars, md5tab, observed>>

\* entry.delete(): removes its join rows, not the authors
DeleteEntry(slug) ==
    /\ \E e \in entries : e.slug_headline = slug
    /\ entries' = {e \in entries : e.slug_headline # slug}
    /\ links' = {l \in links : l[1] # slug}
    /\ UNCHANGED <<now, blogs, authors, profiles, fileVars, procVars, md5tab, observed, last>>

\* entry.authors.add(author): a join row, with a foreign key to each side
AddAuthor(slug, author) ==
    /\ \E e \in entries : e.slug_headline = slug
    /\ \E a \in authors : a.id = author
    /\ links' = links \cup {<<slug, author>>}
    /\ UNCHANGED <<now, blogs, authors, entries, profiles, fileVars, procVars, md5tab,
                   observed, last>>

\* time passes
Tick ==
    /\ now < MaxClock
    /\ now' = now + 1
    /\ UNCHANGED <<schemaVars, profiles, fileVars, procVars, md5tab, observed, last>>

-----------------------------------------------------------------------------
(* Avatar files *)

desired_size == 200         \* desired_size = (200, 200)
phone_max_length == 12      \* phone_number max_length

Placeholder == "avatars/unnamed.png"    \* the avatar field's default

Image(src, w, h, ok) == [src |-> src, w |-> w, h |-> h, ok |-> ok, pil |-> FALSE]
NoContent == Image("", 0, 0, FALSE)

\* the images a caller may upload: src names the bytes, ok says PIL can decode them
ImgA == Image("A", 300, 400, TRUE)
ImgB == Image("B", 640, 100, TRUE)
ImgC == Image("C", 0, 0, FALSE)
ImgD == Image("D", 200, 200, TRUE)
ImgE == Image("E", 1, 1000, TRUE)
ImgF == Image("F", 201, 200, TRUE)
ImgG == Image("G", 1000, 1, TRUE)
Contents == {ImgA, ImgB, ImgC, ImgD, ImgE, ImgF, ImgG}
DataIds  == {c.src : c \in Contents}

\* what avatars/unnamed.png may hold before the first save
PlaceholderImages == {Image("P", 128, 128, TRUE), Image("P", 300, 400, TRUE)}

PngName == <<"a", ".", "p", "n", "g">>
JpgName == <<"b", ".", "j", "p", "g">>
Upload(filename, content) == [filename |-> filename, content |-> content]
NoUpload == Upload(<<>>, NoContent)

\* what the storage appends to a name that is taken (7 random characters in Django)
Suffixes == {"x7Gq2Lm"}

Digits == {"0", "1", "2", "3", "4", "5", "6", "7", "8", "9"}

\* phone_regex: re.search(r'^\+79\d{9}$', value); $ also matches before a final newline
phone_regex(s) ==
    /\ Len(s) = 12 \/ (Len(s) = 13 /\ s[13] = "\n")
    /\ s[1] = "+" /\ s[2] = "7" /\ s[3] = "9"
    /\ \A k \in 4..12 : s[k] \in Digits

PhoneGood   == <<"+", "7", "9", "1", "2", "3", "4", "5", "6", "7", "8", "9">>
PhoneShort  == <<"+", "7", "9", "1", "2", "3", "4", "5", "6", "7", "8">>
PhonePrefix == <<"8", "9", "1", "2", "3", "4", "5", "6", "7", "8", "9">>
PhoneLong   == <<"+", "7", "9", "1", "2", "3", "4", "5", "6", "7", "8", "9", "x">>
Phones      == {NoPhone, PhoneGood, PhoneShort, PhonePrefix, PhoneLong}

LastIndexOf(s, c) ==
    IF \E k \in 1..Len(s) : s[k] = c THEN Max({k \in 1..Len(s) : s[k] = c}) ELSE 0

\* os.path.splitext: <<root, ext>>; a name of leading dots only has no extension
splitext(s) ==
    LET sepIndex == LastIndexOf(s, "/")
        dotIndex == LastIndexOf(s, ".")
    IN  IF dotIndex > sepIndex /\ \E k \in (sepIndex + 1)..(dotIndex - 1) : s[k] # "."
        THEN <<SubSeq(s, 1, dotIndex - 1), SubSeq(s, dotIndex, Len(s))>>
        ELSE <<s, <<>>>>

\* a variant that leaves the digest out of the name
hashed_upload_path_no_hash(instance, filename) ==
    "avatars/" \o instance.author_name \o Str(splitext(filename)[2])

\* hashed_upload_path(instance, filename)
hashed_upload_path(instance, filename) ==
    LET file_hash    == md5tab[instance.avatar.content.src]
        ext          == Str(splitext(filename)[2])
        new_filename == instance.author_name \o "_" \o file_hash \o ext
    IN  "avatars/" \o new_filename

\* the name the storage tries when the derived one is taken: root_suffix.ext
\* (author names and digests hold no dot, so the derived name splits at filename's dot)
AlternativeName(instance, filename, sfx) ==
    LET file_hash == md5tab[instance.avatar.content.src]
        ext       == Str(splitext(filename)[2])
    IN  "avatars/" \o instance.author_name \o "_" \o file_hash \o "_" \o sfx \o ext

\* the name the storage stores under: the derived name if free, else an alternative
StoredName(instance, filename, sfx) ==
    IF hashed_upload_path(instance, filename) \notin DOMAIN files
    THEN hashed_upload_path(instance, filename)
    ELSE AlternativeName(instance, filename, sfx)

\* a variant that looks at the width alone
thumbnail_width_only(w, h) ==
    IF desired_size >= w THEN <<w, h>>
    ELSE <<desired_size, Max({(desired_size * h) \div w, 1})>>

\* Image.thumbnail((200, 200)): the size the image is shrunk to, aspect ratio kept,
\* the other side rounded to the nearer whole number and at least 1
thumbnail(w, h) ==
    LET x == desired_size
        y == desired_size
    IN  IF x >= w /\ y >= h
        THEN <<w, h>>
        ELSE IF x * h >= w * y      \* x / y >= aspect, aspect = w / h
        THEN LET f == (y * w) \div h
                 r == (y * w) % h
                 n == IF r <= h - r THEN f ELSE f + 1
             IN  <<Max({n, 1}), y>>
        ELSE LET f == (x * h) \div w
                 r == (x * h) % w
                 n == IF f = 0 \/ r = 0 \/ r * (f + 1) <= (w - r) * f THEN f ELSE f + 1
             IN  <<x, Max({n, 1})>>

Fits(f) == f.w <= desired_size /\ f.h <= desired_size

Put(fs, path, content) ==
    [x \in DOMAIN fs \cup {path} |-> IF x = path THEN content ELSE fs[x]]

-----------------------------------------------------------------------------
(* AuthorProfile *)

FieldFile(name, committed, filename, content) ==
    [name |-> name, committed |-> committed, filename |-> filename, content |-> content]

NoInstance ==
    [pk |-> NoPk, author |-> 0, author_name |-> "", phone |-> NoPhone,
     avatar |-> FieldFile("", TRUE, <<>>, NoContent)]

\* the avatar field of an instance: the upload when there is one, else what it held
AvatarOf(up, held) ==
    IF up = NoUpload THEN FieldFile(held, TRUE, <<>>, NoContent)
    ELSE FieldFile(Str(up.filename), FALSE, up.filename, up.content)

\* the storage has room for one more upload
Room(up) ==
    up # NoUpload =>
        Cardinality(DOMAIN files)
          + Cardinality({q \in Procs : pc[q] = "start" /\ ~inst[q].avatar.committed}) < MaxFiles

\* AuthorProfile(author=a, [avatar=up], [phone_number=phone]), then .save() is called
BeginNew(p, a, up, phone) ==
    /\ pc[p] = "idle"
    /\ Room(up)
    /\ a \in authors
    /\ inst' = [inst EXCEPT ![p] =
                  [pk |-> NoPk, author |-> a.id, author_name |-> a.name, phone |-> phone,
                   avatar |-> AvatarOf(up, Placeholder)]]
    /\ pc' = [pc EXCEPT ![p] = "start"]
    /\ issued' = Append(issued, p)
    /\ UNCHANGED <<now, schemaVars, profiles, fileVars, img, err, md5tab, observed, last>>

\* AuthorProfile.objects.get(pk=r.id), [avatar = up], phone_number = phone, then .save()
BeginExisting(p, r, up, phone) ==
    /\ pc[p] = "idle"
    /\ Room(up)
    /\ r \in profiles
    /\ \E a \in authors :
          /\ a.id = r.author
          /\ inst' = [inst EXCEPT ![p] =
                        [pk |-> r.id, author |-> r.author, author_name |-> a.name,
                         phone |-> phone, avatar |-> AvatarOf(up, r.avatar)]]
    /\ pc' = [pc EXCEPT ![p] = "start"]
    /\ issued' = Append(issued, p)
    /\ UNCHANGED <<now, schemaVars, profiles, fileVars, img, err, md5tab, observed, last>>

\* what the row write raises, "" when the row is written: max_length (only where the
\* database enforces it), the author FK, author one-to-one, phone_number unique
RowError(i, id, strict) ==
    IF strict /\ i.phone # NoPhone /\ Len(i.phone) > phone_max_length THEN "DataError"
    ELSE IF \A a \in authors : a.id # i.author THEN "IntegrityError"
    ELSE IF \E r \in profiles : r.id # id /\ r.author = i.author THEN "IntegrityError"
    ELSE IF \E r \in profiles : r.id # id /\ i.phone # NoPhone /\ r.phone = i.phone
         THEN "IntegrityError"
    ELSE ""

\* a variant in which a request waits while another is between its write and its resize
MayWriteExclusive(p) ==
    /\ pc[p] = "start"
    /\ \A q \in Procs \ {p} : pc[q] \notin {"saved", "loaded"}

\* when a request may write: save() takes no lock and opens no transaction, so
\* whatever the other requests are doing
MayWrite(p) == pc[p] = "start"

\* line 128, super().save(): pre_save stores an uploaded file under its stored name,
\* then the row is inserted or updated
SuperSave(p) ==
    /\ MayWrite(p)
    /\ \E sfx \in Suffixes, strict \in BOOLEAN :
          LET i      == inst[p]
              fresh  == ~i.avatar.committed
              stored == StoredName(i, i.avatar.filename, sfx)
              name   == IF fresh THEN stored ELSE i.avatar.name
              id     == IF i.pk = NoPk THEN NextId(profiles) ELSE i.pk
              row    == [id |-> id, author |-> i.author, avatar |-> name, phone |-> i.phone]
              e      == RowError(i, id, strict)
          IN  /\ id <= MaxProfiles
              /\ fresh => stored \notin DOMAIN files
              /\ files' = IF fresh THEN Put(files, stored, i.avatar.content) ELSE files
              /\ fileOps' = IF fresh THEN fileOps \cup {<<"store", stored>>} ELSE fileOps
              /\ uploads' = IF fresh
                            THEN uploads \cup
                                 {[author_name |-> i.author_name, content |-> i.avatar.content,
                                   ext |-> Str(splitext(i.avatar.filename)[2]),
                                   derived |-> hashed_upload_path(i, i.avatar.filename),
                                   stored |-> stored]}
                            ELSE uploads
              /\ inst' = [inst EXCEPT ![p].avatar = [@ EXCEPT !.name = name, !.committed = TRUE],
                                      ![p].pk = IF e = "" THEN id ELSE @]
              /\ profiles' = IF e = "" THEN {r \in profiles : r.id # id} \cup {row}
                             ELSE profiles
              /\ err' = [err EXCEPT ![p] = e]
              /\ pc' = [pc EXCEPT ![p] = IF e = "" THEN "saved" ELSE "failed"]
    /\ UNCHANGED <<now, schemaVars, img, md5tab, issued, observed, last>>

\* a variant in which the failed save's row is taken back
RowsRolledBack(p) == {r \in profiles : r.id # inst[p].pk}

\* the AuthorProfile rows after Image.open has raised: nothing undoes the row write
RowsAfterFailedResize(p) == profiles

\* lines 131-137, Image.open(self.avatar.path) and image.thumbnail(desired_size, ...)
OpenThumbnail(p) ==
    /\ pc[p] = "saved"
    /\ LET path == inst[p].avatar.name
       IN  /\ fileOps' = fileOps \cup {<<"open", path>>}
           /\ IF path \notin DOMAIN files
              THEN /\ err' = [err EXCEPT ![p] = "FileNotFoundError"]
                   /\ pc' = [pc EXCEPT ![p] = "failed"]
                   /\ img' = img
                   /\ profiles' = RowsAfterFailedResize(p)
              ELSE IF ~files[path].ok
              THEN /\ err' = [err EXCEPT ![p] = "UnidentifiedImageError"]
                   /\ pc' = [pc EXCEPT ![p] = "failed"]
                   /\ img' = img
                   /\ profiles' = RowsAfterFailedResize(p)
              ELSE /\ img' = [img EXCEPT ![p] =
                                [files[path] EXCEPT
                                    !.w = thumbnail(files[path].w, files[path].h)[1],
                                    !.h = thumbnail(files[path].w, files[path].h)[2]]]
                   /\ pc' = [pc EXCEPT ![p] = "loaded"]
                   /\ err' = err
                   /\ profiles' = profiles
    /\ UNCHANGED <<now, schemaVars, files, uploads, inst, md5tab, issued, observed, last>>

\* line 140, image.save(self.avatar.path): the file is overwritten with the shrunk image
ImageSave(p) ==
    /\ pc[p] = "loaded"
    /\ files' = Put(files, inst[p].avatar.name, [img[p] EXCEPT !.pil = TRUE])
    /\ fileOps' = fileOps \cup {<<"overwrite", inst[p].avatar.name>>}
    /\ pc' = [pc EXCEPT ![p] = "done"]
    /\ UNCHANGED <<now, schemaVars, profiles, uploads, inst, img, err, md5tab, issued,
                   observed, last>>

\* save() has returned or raised: the request is over
Return(p) ==
    /\ pc[p] \in {"done", "failed"}
    /\ pc' = [pc EXCEPT ![p] = "idle"]
    /\ inst' = [inst EXCEPT ![p] = NoInstance]
    /\ img' = [img EXCEPT ![p] = NoContent]
    /\ err' = [err EXCEPT ![p] = ""]
    /\ issued' = SelectSeq(issued, LAMBDA q : q # p)
    /\ UNCHANGED <<now, schemaVars, profiles, fileVars, md5tab, observed, last>>

\* profile.delete(): the row goes, the file stays
DeleteProfile(id) ==
    /\ \E r \in profiles : r.id = id
    /\ profiles' = {r \in profiles : r.id # id}
    /\ UNCHANGED <<now, schemaVars, fileVars, procVars, md5tab, observed, last>>

\* a reader opens the avatar file a profile row points to
ReadAvatar(r) ==
    /\ r \in profiles
    /\ r.avatar \in DOMAIN files
    /\ observed' = [path |-> r.avatar, file |-> files[r.avatar]]
    /\ UNCHANGED <<now, schemaVars, profiles, fileVars, procVars, md5tab, last>>

-----------------------------------------------------------------------------
(* Specifications *)

\* hexdigest of the uploadable images' bytes: seven different files, seven digests
Md5Hex ==
    [d \in DataIds |->
        CASE d = "A" -> "d1" [] d = "B" -> "d2" [] d = "C" -> "d3"
          [] d = "D" -> "d4" [] d = "E" -> "d5" [] d = "F" -> "d6" [] d = "G" -> "d7"]

\* the state after migration: empty tables, the placeholder avatar in the storage
InitBase ==
    /\ now = 0
    /\ blogs = {} /\ authors = {} /\ entries = {} /\ links = {} /\ profiles = {}
    /\ files \in {[x \in {Placeholder} |-> im] : im \in PlaceholderImages}
    /\ fileOps = {} /\ uploads = {}
    /\ observed = [path |-> "", file |-> NoContent]
    /\ pc = [p \in Procs |-> "idle"]
    /\ inst = [p \in Procs |-> NoInstance]
    /\ img = [p \in Procs |-> NoContent]
    /\ err = [p \in Procs |-> ""]
    /\ issued = <<>>
    /\ last = Outcome("", <<>>, "")

Init == InitBase /\ md5tab = Md5Hex

\* the same, the placeholder being the small one
InitSmall == Init /\ Fits(files[Placeholder])

BlogKeys   == {<<"Tech", "tech">>, <<"Food", "food">>}
AuthorKeys == {<<"Ivan", "ivan@example.com">>, <<"Olga", "olga@example.com">>}
EntryKeys  == {<<1, "intro">>, <<2, "next">>}
PngUploads == {Upload(PngName, c) : c \in Contents}

\* the tables alone: blogs and entries created and deleted
NextSchema ==
    \/ \E name \in BlogNames, slug \in BlogSlugs : CreateBlog(name, slug)
    \/ \E id \in 1..MaxBlogs : DeleteBlog(id)
    \/ \E b \in 1..MaxBlogs, h \in Headlines, s \in EntrySlugs :
          CreateEntry(b, h, s, NoDate, NoDate)
    \/ \E s \in EntrySlugs : DeleteEntry(s)

SpecSchema == InitSmall /\ [][NextSchema]_vars

\* entries of one blog created and re-saved as time passes
NextDates ==
    \/ CreateBlog("Tech", "tech")
    \/ \E s \in EntrySlugs, pub \in {NoDate, 0}, mod \in {NoDate, 0} :
          CreateEntry(1, "Intro", s, pub, mod)
    \/ \E s \in EntrySlugs, pub \in {NoDate, 0}, mod \in {NoDate, 0} : SaveEntry(s, pub, mod)
    \/ Tick

SpecDates == InitSmall /\ [][NextDates]_vars

\* every table, rows created, linked and deleted; profiles saved with the default avatar
NextCascade ==
    \/ \E k \in BlogKeys : CreateBlog(k[1], k[2])
    \/ \E k \in AuthorKeys : CreateAuthor(k[1], k[2])
    \/ \E k \in EntryKeys : CreateEntry(k[1], "Intro", k[2], NoDate, NoDate)
    \/ \E s \in EntrySlugs, a \in 1..MaxAuthors : AddAuthor(s, a)
    \/ \E a \in authors : BeginNew(1, a, NoUpload, NoPhone)
    \/ SuperSave(1)
    \/ OpenThumbnail(1)
    \/ ImageSave(1)
    \/ Return(1)
    \/ \E id \in 1..MaxBlogs : DeleteBlog(id)
    \/ \E id \in 1..MaxAuthors : DeleteAuthor(id)
    \/ \E s \in EntrySlugs : DeleteEntry(s)
    \/ \E id \in 1..MaxProfiles : DeleteProfile(id)

SpecCascade == InitSmall /\ [][NextCascade]_vars

\* one author's profile saved again and again by one request at a time
NextAvatar ==
    \/ CreateAuthor("Ivan", "ivan@example.com")
    \/ \E a \in authors, up \in PngUploads \cup {NoUpload} : BeginNew(1, a, up, NoPhone)
    \/ \E r \in profiles, up \in PngUploads \cup {NoUpload} :
          BeginExisting(1, r, up, NoPhone)
    \/ SuperSave(1)
    \/ OpenThumbnail(1)
    \/ ImageSave(1)
    \/ Return(1)

SpecAvatar == Init /\ [][NextAvatar]_vars

\* two authors' profiles saved with phone numbers of every shape, and no upload
NextPhone ==
    \/ \E k \in AuthorKeys : CreateAuthor(k[1], k[2])
    \/ \E a \in authors, ph \in Phones : BeginNew(1, a, NoUpload, ph)
    \/ \E r \in profiles, ph \in Phones : BeginExisting(1, r, NoUpload, ph)
    \/ SuperSave(1)
    \/ OpenThumbnail(1)
    \/ ImageSave(1)
    \/ Return(1)

SpecPhone == InitSmall /\ [][NextPhone]_vars

\* two requests saving one author's profile, created with the default avatar, at the
\* same time, each with an upload, and a reader
RaceUploads == {Upload(PngName, ImgA), Upload(PngName, ImgB)}

NextRace ==
    \/ CreateAuthor("Ivan", "ivan@example.com")
    \/ \E p \in Procs, a \in authors : BeginNew(p, a, NoUpload, NoPhone)
    \/ \E p \in Procs, r \in profiles, up \in RaceUploads : BeginExisting(p, r, up, NoPhone)
    \/ \E p \in Procs : SuperSave(p)
    \/ \E p \in Procs : OpenThumbnail(p)
    \/ \E p \in Procs : ImageSave(p)
    \/ \E p \in Procs : Return(p)
    \/ \E r \in profiles : ReadAvatar(r)

SpecRace == Init /\ [][NextRace]_vars

\* uploads named by a digest table that may or may not tell the two images apart
NamingData    == {"A", "D"}
NamingUploads == {Upload(f, c) : f \in {PngName, JpgName}, c \in {ImgA, ImgD}}

InitNaming ==
    /\ InitBase
    /\ md5tab \in {[d \in DataIds |-> IF d \in NamingData THEN g[d] ELSE Md5Hex[d]] :
                      g \in [NamingData -> {"d1", "d4"}]}

NextNaming ==
    \/ \E k \in AuthorKeys : CreateAuthor(k[1], k[2])
    \/ \E a \in authors, up \in NamingUploads : BeginNew(1, a, up, NoPhone)
    \/ \E r \in profiles, up \in NamingUploads : BeginExisting(1, r, up, NoPhone)
    \/ SuperSave(1)
    \/ OpenThumbnail(1)
    \/ ImageSave(1)
    \/ Return(1)

SpecNaming == InitNaming /\ [][NextNaming]_vars

Spec == SpecSchema

-----------------------------------------------------------------------------
(* Properties *)

NoTwoBlogsAlike ==
    \A b1, b2 \in blogs : (b1.name = b2.name \/ b1.slug_name = b2.slug_name) => b1 = b2

\* C1: a Blog create whose name or slug_name an existing Blog has raises IntegrityError
\* and leaves the Blog table as it was; a create whose name and slug_name are both new
\* adds exactly that Blog. So no two Blogs ever share a name or a slug_name.
C1_BlogUniqueness ==
    /\ []NoTwoBlogsAlike
    /\ [][\A name \in BlogNames, slug \in BlogSlugs :
            CreateBlog(name, slug) =>
               IF \E b \in blogs : b.name = name \/ b.slug_name = slug
               THEN blogs' = blogs /\ last'.result = "IntegrityError"
               ELSE /\ last'.result = "ok"
                    /\ \E b \in blogs' : /\ b.name = name /\ b.slug_name = slug
                                         /\ b \notin blogs /\ blogs' = blogs \cup {b}]_vars

\* a create was refused for its slug_name alone: no Blog has its name
C1_Witness ==
    /\ last.op = "CreateBlog" /\ last.result = "IntegrityError"
    /\ \E b \in blogs : b.slug_name = last.arg[2]
    /\ \A b \in blogs : b.name # last.arg[1]

\* in how many of blog, headline and slug_headline the entry e differs from the arguments
Differences(e, blog, headline, slug) ==
    (IF e.blog # blog THEN 1 ELSE 0) + (IF e.headline # headline THEN 1 ELSE 0)
      + (IF e.slug_headline # slug THEN 1 ELSE 0)

\* C2 as stated: with one Entry in the table, a create with the same (blog, headline,
\* slug_headline) fails, and a create that differs from it in exactly one of the three
\* succeeds.
C2_AnyOneFieldMayDiffer ==
    [][\A b \in 1..MaxBlogs, h \in Headlines, s \in EntrySlugs :
         (CreateEntry(b, h, s, NoDate, NoDate) /\ \E x \in blogs : x.id = b) =>
            \A e \in entries :
               entries = {e} =>
                  /\ Differences(e, b, h, s) = 0 => last'.result = "IntegrityError"
                  /\ Differences(e, b, h, s) = 1 => last'.result = "ok"]_vars

\* C2: an Entry create (its blog existing) succeeds exactly when no Entry has its
\* slug_headline, the primary key: the same triple fails, a new slug_headline succeeds
\* whatever blog and headline are, and an existing slug_headline fails though blog or
\* headline differ. A failed create leaves the Entry table as it was.
C2_SlugHeadlineDecides ==
    [][\A b \in 1..MaxBlogs, h \in Headlines, s \in EntrySlugs :
         (CreateEntry(b, h, s, NoDate, NoDate) /\ \E x \in blogs : x.id = b) =>
            IF \E e \in entries : e.slug_headline = s
            THEN entries' = entries /\ last'.result = "IntegrityError"
            ELSE /\ last'.result = "ok"
                 /\ \E e \in entries' : /\ e.blog = b /\ e.headline = h /\ e.slug_headline = s
                                        /\ entries' = entries \cup {e}]_vars

\* a create was refused that differs from the Entry in the table in its headline only
C2_Witness ==
    /\ last.op = "CreateEntry" /\ last.result = "IntegrityError"
    /\ \E e \in entries :
          /\ e.blog = last.arg[1] /\ e.slug_headline = last.arg[3] /\ e.headline # last.arg[2]
          /\ \E x \in blogs : x.id = e.blog

EntriesHaveBlogs == \A e \in entries : \E b \in blogs : b.id = e.blog
ProfilesHaveAuthors == \A r \in profiles : \E a \in authors : a.id = r.author
LinksHaveBothSides ==
    \A l \in links : /\ \E e \in entries : e.slug_headline = l[1]
                     /\ \E a \in authors : a.id = l[2]

\* C3: deleting a Blog deletes its entries (and no other entry, and no author),
\* deleting an Author deletes its profile and its links (and no entry), deleting an
\* Entry deletes its links (and no author). So every Entry has its Blog, every
\* AuthorProfile its Author, and every link its Entry and its Author.
C3_Cascades ==
    /\ [](EntriesHaveBlogs /\ ProfilesHaveAuthors /\ LinksHaveBothSides)
    /\ [][/\ \A id \in 1..MaxBlogs :
               DeleteBlog(id) =>
                  /\ entries' = {e \in entries : e.blog # id}
                  /\ authors' = authors /\ profiles' = profiles
                  /\ links' = {l \in links : \E e \in entries' : e.slug_headline = l[1]}
          /\ \A id \in 1..MaxAuthors :
               DeleteAuthor(id) =>
                  /\ profiles' = {r \in profiles : r.author # id}
                  /\ links' = {l \in links : l[2] # id}
                  /\ entries' = entries /\ blogs' = blogs
          /\ \A s \in EntrySlugs :
               DeleteEntry(s) =>
                  /\ links' = {l \in links : l[1] # s}
                  /\ authors' = authors /\ profiles' = profiles /\ blogs' = blogs]_vars

\* the first blog and the first author are gone, with all that hung on them; the
\* second blog's entry is still linked to the second author, who has a profile
C3_Witness ==
    /\ blogs # {} /\ \A b \in blogs : b.id = 2
    /\ authors # {} /\ \A a \in authors : a.id = 2
    /\ \E r \in profiles : r.id = 2 /\ r.author = 2
    /\ \A r \in profiles : r.id = 2
    /\ \E e \in entries : e.blog = 2 /\ <<e.slug_headline, 2>> \in links

\* C9: an Entry created without a pub_date gets pub_date = now and mod_date = today;
\* a save of an Entry puts today's date in mod_date whatever the caller set there, and,
\* the caller not having set pub_date, leaves pub_date as it was.
C9_Dates ==
    [][/\ \A s \in EntrySlugs, mod \in {NoDate, 0} :
            (CreateEntry(1, "Intro", s, NoDate, mod) /\ last'.result = "ok") =>
               \E e \in entries' \ entries : e.pub_date = now /\ e.mod_date = Today
       /\ \A s \in EntrySlugs, mod \in {NoDate, 0} :
            SaveEntry(s, NoDate, mod) =>
               \E e \in entries, f \in entries' :
                  /\ e.slug_headline = s /\ f.slug_headline = s
                  /\ f.mod_date = Today /\ f.pub_date = e.pub_date]_vars

\* an Entry stamped after the first tick was saved a day later, the caller having set
\* mod_date to day 0: mod_date is the day of the save, pub_date the instant of creation
C9_Witness ==
    /\ last = Outcome("SaveEntry", <<"intro", NoDate, 0>>, "ok")
    /\ \E e \in entries :
          /\ e.slug_headline = "intro"
          /\ e.pub_date > 0 /\ e.pub_date \div TicksPerDay < e.mod_date
          /\ e.mod_date = Today

\* C4: a save of a profile whose avatar is the default avatars/unnamed.png neither
\* opens nor overwrites that file, which holds what it held at the start.
C4_PlaceholderUntouched ==
    /\ files[Placeholder] \in PlaceholderImages
    /\ <<"open", Placeholder>> \notin fileOps
    /\ <<"overwrite", Placeholder>> \notin fileOps

\* C5: when a save has returned without error the file at the instance's avatar path
\* is at most 200 wide and 200 high; and with no save under way every profile row's
\* avatar file that is an image is.
C5_AvatarFits ==
    /\ \A p \in Procs : pc[p] = "done" => Fits(files[inst[p].avatar.name])
    /\ (\A p \in Procs : pc[p] = "idle") =>
          \A r \in profiles : files[r.avatar].ok => Fits(files[r.avatar])

\* a save that uploaded the 1x1000 image has returned, and the file is 1x200
C5_Witness ==
    /\ pc[1] = "done" /\ inst[1].avatar.content = ImgE
    /\ files[inst[1].avatar.name].w = 1 /\ files[inst[1].avatar.name].h = 200
    /\ \E r \in profiles : r.id = inst[1].pk /\ r.avatar = inst[1].avatar.name

\* C6: a save whose resize failed on an undecodable file leaves the row it wrote in the
\* table and the file as uploaded; and a file is opened for resizing only when a row
\* with that avatar has been written.
C6_NoRollback ==
    /\ [](\A p \in Procs :
            (pc[p] = "failed" /\ err[p] = "UnidentifiedImageError") =>
               /\ \E r \in profiles : r.id = inst[p].pk /\ r.avatar = inst[p].avatar.name
               /\ \E u \in uploads : /\ u.stored = inst[p].avatar.name
                                     /\ files[u.stored] = u.content)
    /\ [][\A op \in fileOps' \ fileOps :
            op[1] = "open" => \E r \in profiles : r.avatar = op[2]]_vars

\* the save that uploaded the undecodable file has raised; its row is in the table
C6_Witness ==
    /\ pc[1] = "failed" /\ err[1] = "UnidentifiedImageError"
    /\ inst[1].avatar.content = ImgC
    /\ \E r \in profiles : r.id = inst[1].pk /\ files[r.avatar] = ImgC

\* C7: no AuthorProfile row holds a non-empty phone_number that phone_regex rejects.
C7_PhonesValid ==
    \A r \in profiles : r.phone = NoPhone \/ r.phone = <<>> \/ phone_regex(r.phone)

SameAuthorAndExt(u1, u2) == u1.author_name = u2.author_name /\ u1.ext = u2.ext

DerivedName(u) == "avatars/" \o u.author_name \o "_" \o md5tab[u.content.src] \o u.ext

\* C8 as stated: of two uploads for one author name and extension, the same bytes are
\* stored under the same name avatars/{author_name}_{md5}{ext}, different bytes under
\* different names.
C8_SameBytesSameStoredName ==
    \A u1, u2 \in uploads :
       SameAuthorAndExt(u1, u2) =>
          /\ u1.content.src = u2.content.src =>
                u1.stored = u2.stored /\ u1.stored = DerivedName(u1)
          /\ u1.content.src # u2.content.src => u1.stored # u2.stored

\* C8: the name the naming step derives is avatars/{author_name}_{md5}{ext}: for one
\* author name and extension, two uploads get the same derived name exactly when their
\* digests are equal. The stored name is the derived name when that name is free, and
\* the derived name with a suffix before the extension when it is taken; no two uploads
\* are stored under one name.
C8_DerivedNameByDigest ==
    \A u1, u2 \in uploads :
       /\ u1.derived = DerivedName(u1)
       /\ SameAuthorAndExt(u1, u2) =>
             (md5tab[u1.content.src] = md5tab[u2.content.src] <=> u1.derived = u2.derived)
       /\ u1.stored = u2.stored => u1 = u2
       /\ \/ u1.stored = u1.derived
          \/ \E sfx \in Suffixes :
                u1.stored = "avatars/" \o u1.author_name \o "_" \o md5tab[u1.content.src]
                               \o "_" \o sfx \o u1.ext

\* the same bytes were uploaded twice for one author and extension, and are stored
\* under two names
C8_Witness ==
    \E u1, u2 \in uploads :
       /\ SameAuthorAndExt(u1, u2) /\ u1.content = u2.content
       /\ u1.derived = u2.derived /\ u1.stored = u1.derived /\ u2.stored # u1.stored

\* the storage has a free name for the upload q is about to store
FreeName(q) ==
    \/ inst[q].avatar.committed
    \/ \E sfx \in Suffixes :
          StoredName(inst[q], inst[q].avatar.filename, sfx) \notin DOMAIN files

\* C10: saves of one profile do not exclude each other: while one request is between
\* its file write and its resize, another request that is ready to write the same
\* profile (a name being free for its upload) can write; and a reader can read the
\* avatar file of any row at any time.
C10_NoMutualExclusion ==
    /\ \A p, q \in Procs :
          (/\ p # q /\ pc[p] \in {"saved", "loaded"} /\ pc[q] = "start"
           /\ inst[q].pk = inst[p].pk /\ FreeName(q)) => ENABLED SuperSave(q)
    /\ \A r \in profiles : r.avatar \in DOMAIN files => ENABLED ReadAvatar(r)

\* request 1 was issued before request 2, both have written the same profile and
\* neither has resized; the row holds the avatar of request 1, the one issued first,
\* and a reader has seen that file larger than 200x200
C10_Witness ==
    /\ issued = <<1, 2>> /\ pc[1] = "saved" /\ pc[2] = "saved"
    /\ inst[1].pk = inst[2].pk
    /\ inst[1].avatar.name # inst[2].avatar.name
    /\ inst[1].avatar.filename # <<>> /\ inst[2].avatar.filename # <<>>
    /\ \E r \in profiles :
          /\ r.id = inst[1].pk /\ r.avatar = inst[1].avatar.name
          /\ observed.path = r.avatar /\ ~Fits(observed.file) /\ ~observed.file.pil

====
